---- MODULE Spec2Model ----
(***************************************************************************)
(* Model of num-modular: the Montgomery engine of src/src/monty.rs for the *)
(* primitive widths, the MontgomeryInt handle built on it, and the generic *)
(* invm / jacobi operations of the ModularOps trait (src/src/lib.rs).      *)
(*                                                                         *)
(* Numbers are naturals.  A value of the width-W type Self is a natural    *)
(* below 2^W.  A value of the double-width type Self::Double is a record   *)
(* [hi, lo] of two width-W words standing for hi * 2^W + lo, so that the   *)
(* 2W-bit intermediate values of width 16 stay inside the range of the     *)
(* model checker's integers.  Arithmetic is that of the release profile:   *)
(* `+`, `-` and `*` on Self wrap modulo 2^W and debug_assert! is not       *)
(* compiled; reduce_steps reports whether its addition on Self wrapped.    *)
(***************************************************************************)
EXTENDS Integers, Sequences, FiniteSets, TLC

VARIABLES width, h, origin, used, last, nops, arg, ret

vars == <<width, h, origin, used, last, nops, arg, ret>>

(***************************************************************************)
(* Widths of Self that the model instantiates: u8 and u16.                 *)
(***************************************************************************)
Widths == {8, 16}

\* Self::BITS and the auxiliary modulus R = 2^BITS.
BITS(W) == W
R(W) == 2 ^ BITS(W)

\* One byte: the digit in which wide products and wide remainders are computed.
Byte == 2 ^ 8

(***************************************************************************)
(* Wrapping arithmetic on Self.                                            *)
(***************************************************************************)
wrapping_neg(W, x) == (R(W) - x) % R(W)

wrapping_sub(W, x, y) == (x - y + R(W)) % R(W)

\* x * y modulo 2^W, with y taken one byte at a time.
wrapping_mul(W, x, y) ==
    (x * (y % Byte) + ((x * (y \div Byte)) % Byte) * Byte) % R(W)

(***************************************************************************)
(* Arithmetic on Self::Double.                                             *)
(***************************************************************************)
\* x as Self::Double
Widen(x) == [hi |-> 0, lo |-> x]

\* d << Self::BITS, in 2W bits
ShlBits(d) == [hi |-> d.lo, lo |-> 0]

\* d >> Self::BITS, then `as Self`
ShrBits(d) == d.hi

\* d as Self
Truncate(d) == d.lo

\* (x as Double) * (y as Double): the full 2W-bit product of two words.
WideMul(W, x, y) ==
    LET p0  == x * (y % Byte)
        p1  == x * (y \div Byte)
        top == R(W) \div Byte
        low == p0 + (p1 % top) * Byte
    IN  [hi |-> (p1 \div top) + (low \div R(W)), lo |-> low % R(W)]

\* Double::overflowing_add: the 2W-bit sum and whether it carried out.
overflowing_add(W, d, e) ==
    LET lo == d.lo + e.lo
        hi == d.hi + e.hi + (lo \div R(W))
    IN  [val |-> [hi |-> hi % R(W), lo |-> lo % R(W)], overflow |-> hi >= R(W)]

\* d < e on Double
DoubleLess(d, e) == d.hi < e.hi \/ (d.hi = e.hi /\ d.lo < e.lo)

\* Bring down the k low bytes of lo into the running remainder r (long division).
RECURSIVE RemBytes(_, _, _, _)
RemBytes(r, lo, k, m) ==
    IF k = 0 THEN r
    ELSE LET unit == 2 ^ (8 * (k - 1))
         IN  RemBytes((r * Byte + (lo \div unit)) % m, lo % unit, k - 1, m)

\* d % (m as Double), m /= 0
DoubleRem(W, d, m) == RemBytes(d.hi % m, d.lo, BITS(W) \div 8, m)

(***************************************************************************)
(* The Montgomery engine (impl_uprim_montgomery! and the per-width neginv).*)
(***************************************************************************)
\* Entry i (counted from 0) contains (2i+1)^(-1) mod 2^8.
BINVERT_TABLE ==
    << 1, 171, 205, 183, 57, 163, 197, 239, 241, 27, 61, 167, 41, 19, 53, 223,
       225, 139, 173, 151, 25, 131, 165, 207, 209, 251, 29, 135, 9, 243, 21, 191,
       193, 107, 141, 119, 249, 99, 133, 175, 177, 219, 253, 103, 233, 211, 245, 159,
       161, 75, 109, 87, 217, 67, 101, 143, 145, 187, 221, 71, 201, 179, 213, 127,
       129, 43, 77, 55, 185, 35, 69, 111, 113, 155, 189, 39, 169, 147, 181, 95,
       97, 11, 45, 23, 153, 3, 37, 79, 81, 123, 157, 7, 137, 115, 149, 63,
       65, 235, 13, 247, 121, 227, 5, 47, 49, 91, 125, 231, 105, 83, 117, 31,
       33, 203, 237, 215, 89, 195, 229, 15, 17, 59, 93, 199, 73, 51, 85, 255 >>

\* BINVERT_TABLE[((m >> 1) & 0x7F) as usize]
BinvertSeed(m) == BINVERT_TABLE[((m \div 2) % 128) + 1]

\* neginv stopping at the 8-bit seed: no lifting to the width.
neginv_seed_only(W, m) == wrapping_neg(W, BinvertSeed(m))

\* Montgomery::neginv for u8 and for u16: -(m^-1) mod R.
neginv(W, m) ==
    IF W = 8
    THEN wrapping_neg(W, BinvertSeed(m))
    ELSE LET i == BinvertSeed(m)
         IN  wrapping_mul(W, wrapping_sub(W, wrapping_mul(W, i, m), 2), i)

\* Montgomery::transform: (target << BITS) % m in double width.  m /= 0.
transform(W, target, m) == DoubleRem(W, ShlBits(Widen(target)), m)

\* The debug_assert of reduce: monty < (m as Double) << BITS.
ReduceInRange(monty, m) == DoubleLess(monty, ShlBits(Widen(m)))

\* reduce ignoring the carry out of the 2W-bit sum.
reduce_steps_no_carry(W, monty, m, minv) ==
    LET tm == wrapping_mul(W, Truncate(monty), minv)
        s  == overflowing_add(W, monty, WideMul(W, tm, m))
        t  == ShrBits(s.val)
    IN  [tm |-> tm, overflow |-> s.overflow, low |-> s.val.lo, t |-> t,
         comp |-> t, wrapped |-> FALSE,
         out |-> IF t >= m THEN t - m ELSE t]

\* Montgomery::reduce (REDC), step by step.  `comp` is the sum t + m.wrapping_neg()
\* before it is stored in Self, `wrapped` tells whether storing it loses a bit,
\* and `out` is the value returned.
reduce_steps(W, monty, m, minv) ==
    LET tm   == wrapping_mul(W, Truncate(monty), minv)
        s    == overflowing_add(W, monty, WideMul(W, tm, m))
        t    == ShrBits(s.val)
        comp == IF s.overflow THEN t + wrapping_neg(W, m) ELSE t
        t2   == comp % R(W)
    IN  [tm |-> tm, overflow |-> s.overflow, low |-> s.val.lo, t |-> t,
         comp |-> comp, wrapped |-> comp >= R(W),
         out |-> IF t2 >= m THEN t2 - m ELSE t2]

reduce(W, monty, m, minv) == reduce_steps(W, monty, m, minv).out

\* Montgomery::add
add(W, lhs, rhs, m) ==
    LET sum == lhs + rhs
    IN  (IF sum > m THEN sum - m ELSE sum) % R(W)

\* sub returning the distance between the operands when lhs < rhs.
sub_distance(W, lhs, rhs, m) == IF lhs >= rhs THEN lhs - rhs ELSE rhs - lhs

\* Montgomery::sub
sub(W, lhs, rhs, m) ==
    IF lhs >= rhs THEN lhs - rhs ELSE wrapping_sub(W, m, rhs - lhs)

\* Montgomery::neg
neg(W, monty, m) == IF monty = 0 THEN 0 ELSE wrapping_sub(W, m, monty)

\* Montgomery::mul
mul(W, lhs, rhs, m, minv) == reduce(W, WideMul(W, lhs, rhs), m, minv)

\* The loop of Montgomery::pow: square-and-multiply from the low bit of exp.
RECURSIVE pow_loop(_, _, _, _, _, _)
pow_loop(W, multi, exp, result, m, minv) ==
    IF exp > 0
    THEN pow_loop(W, mul(W, multi, multi, m, minv), exp \div 2,
                  IF exp % 2 > 0 THEN mul(W, result, multi, m, minv) ELSE result,
                  m, minv)
    ELSE result

\* Montgomery::pow
pow(W, base, exp, m, minv) ==
    CASE exp = 1 -> base
      [] exp = 2 -> mul(W, base, base, m, minv)
      [] OTHER   -> pow_loop(W, base, exp, 1, m, minv)

(***************************************************************************)
(* The MontgomeryInt handle.  A handle is [a, minv] as in the struct; the  *)
(* shared Rc<(T, T::Inv)> is [ptr, m, inv]: the address of the allocation  *)
(* and its two immutable components.  ptr = 0 is no allocation.            *)
(***************************************************************************)
NoHandle == [a |-> 0, minv |-> [ptr |-> 0, m |-> 0, inv |-> 0]]

Live(hd) == hd.minv.ptr /= 0

\* Rc::ptr_eq(&self.minv, &rhs.minv)
ptr_eq(self, rhs) == self.minv.ptr = rhs.minv.ptr

\* MontgomeryInt::check_modulus_eq: TRUE when the call returns, FALSE when it panics.
check_modulus_eq(self, rhs) ==
    IF ptr_eq(self, rhs)
    THEN (IF self.minv.m /= rhs.minv.m THEN FALSE ELSE TRUE)
    ELSE TRUE

\* MontgomeryInt::new(n, m), the allocation of Rc::new landing at address p.  m /= 0.
MontgomeryInt_new(W, n, m, p) ==
    [a |-> transform(W, n, m), minv |-> [ptr |-> p, m |-> m, inv |-> neginv(W, m)]]

\* derive storing n mod m as it is, not its Montgomery form.
derive_untransformed(W, self, n) == [a |-> n % self.minv.m, minv |-> self.minv]

\* ModularInteger::new(&self, n): a handle on the context of self.
derive(W, self, n) == [a |-> transform(W, n, self.minv.m), minv |-> self.minv]

\* ModularInteger::modulus
modulus(self) == self.minv.m

\* ModularInteger::residue
residue(W, self) == reduce(W, Widen(self.a), self.minv.m, self.minv.inv)

\* PartialEq::eq, once check_modulus_eq has returned
eq(self, other) == self.a = other.a

\* Add::add, Sub::sub, Neg::neg, Mul::mul, once check_modulus_eq has returned
handle_add(W, self, rhs) == [a |-> add(W, self.a, rhs.a, self.minv.m), minv |-> self.minv]

handle_sub(W, self, rhs) == [a |-> sub(W, self.a, rhs.a, self.minv.m), minv |-> self.minv]

handle_neg(W, self) == [a |-> neg(W, self.a, self.minv.m), minv |-> self.minv]

handle_mul(W, self, rhs) ==
    [a |-> mul(W, self.a, rhs.a, self.minv.m, self.minv.inv), minv |-> self.minv]

(***************************************************************************)
(* The program using handles: Slots variables of type MontgomeryInt, each  *)
(* empty or holding a handle, and the operations of the public surface     *)
(* applied to them.  `last` records the operation just performed: its      *)
(* operands as they were, where its result went and whether it panicked.   *)
(* `origin[k]` is the integer n that the handle in slot k was converted    *)
(* from by new or derive, or NoOrigin when it is the result of an operator.*)
(* `used` is the set of moduli that handles have been constructed with.    *)
(***************************************************************************)
MaxOps == 3

Slots == {1, 2}

\* Moduli and integers handed to the constructors, per width.
Moduli(W) == {0, 1, 4, 7, R(W) - 1}

Values(W) == {0, 2, 5, R(W) - 2}

NoOrigin == 0 - 1

ValidModulus(m) == m % 2 = 1 /\ m >= 3

\* Every handle so far was constructed with the one odd modulus m >= 3.
FixedModulus(m) == ValidModulus(m) /\ used = {m}

Event(op, fault, dst, n, m, lhs, rhs, lsrc, rsrc, value) ==
    [op |-> op, fault |-> fault, dst |-> dst, n |-> n, m |-> m, lhs |-> lhs, rhs |-> rhs,
     lsrc |-> lsrc, rsrc |-> rsrc, value |-> value]

\* The address Rc::new returns: one no handle outside slot k points to.
FreshPtr(hs, k) ==
    CHOOSE p \in 1..(Cardinality(Slots) + 1) :
        /\ \A j \in Slots \ {k} : hs[j].minv.ptr /= p
        /\ \A q \in 1..(p - 1) : \E j \in Slots \ {k} : hs[j].minv.ptr = q

NoArg == [m |-> 0, x |-> 0, y |-> 0]

NoRet == [fn |-> "none"]

Init ==
    /\ width \in Widths
    /\ h = [k \in Slots |-> NoHandle]
    /\ origin = [k \in Slots |-> NoOrigin]
    /\ used = {}
    /\ last = Event("init", "none", 0, 0, 0, NoHandle, NoHandle, NoOrigin, NoOrigin, 0)
    /\ nops = 0
    /\ arg = NoArg
    /\ ret = NoRet

\* h[k] = MontgomeryInt::new(n, m).  `% m` in transform divides by zero when m = 0.
New(k, n, m) ==
    /\ nops < MaxOps
    /\ nops' = nops + 1
    /\ IF m = 0
       THEN /\ last' = Event("new", "DivideByZero", k, n, m, NoHandle, NoHandle,
                             NoOrigin, NoOrigin, 0)
            /\ UNCHANGED <<h, origin, used>>
       ELSE /\ h' = [h EXCEPT ![k] = MontgomeryInt_new(width, n, m, FreshPtr(h, k))]
            /\ origin' = [origin EXCEPT ![k] = n]
            /\ used' = used \cup {m}
            /\ last' = Event("new", "none", k, n, m, NoHandle, NoHandle,
                             NoOrigin, NoOrigin, 0)
    /\ UNCHANGED <<width, arg, ret>>

\* h[k] = h[i].new(n)
Derive(k, i, n) ==
    /\ nops < MaxOps
    /\ Live(h[i])
    /\ nops' = nops + 1
    /\ h' = [h EXCEPT ![k] = derive(width, h[i], n)]
    /\ origin' = [origin EXCEPT ![k] = n]
    /\ last' = Event("derive", "none", k, n, modulus(h[i]), h[i], NoHandle,
                     origin[i], NoOrigin, 0)
    /\ UNCHANGED <<width, used, arg, ret>>

\* h[i] = h[i] op h[j] for op one of +, -, *: the modulus check, then the engine.
Binary(op, i, j) ==
    /\ nops < MaxOps
    /\ Live(h[i])
    /\ Live(h[j])
    /\ nops' = nops + 1
    /\ IF check_modulus_eq(h[i], h[j])
       THEN /\ h' = [h EXCEPT ![i] =
                        CASE op = "add" -> handle_add(width, h[i], h[j])
                          [] op = "sub" -> handle_sub(width, h[i], h[j])
                          [] op = "mul" -> handle_mul(width, h[i], h[j])]
            /\ origin' = [origin EXCEPT ![i] = NoOrigin]
            /\ last' = Event(op, "none", i, 0, 0, h[i], h[j], origin[i], origin[j], 0)
       ELSE /\ last' = Event(op, "ModulusMismatch", i, 0, 0, h[i], h[j],
                             origin[i], origin[j], 0)
            /\ UNCHANGED <<h, origin>>
    /\ UNCHANGED <<width, used, arg, ret>>

Add(i, j) == Binary("add", i, j)

Sub(i, j) == Binary("sub", i, j)

Mul(i, j) == Binary("mul", i, j)

\* h[i] = -h[i]
Neg(i) ==
    /\ nops < MaxOps
    /\ Live(h[i])
    /\ nops' = nops + 1
    /\ h' = [h EXCEPT ![i] = handle_neg(width, h[i])]
    /\ origin' = [origin EXCEPT ![i] = NoOrigin]
    /\ last' = Event("neg", "none", i, 0, 0, h[i], NoHandle, origin[i], NoOrigin, 0)
    /\ UNCHANGED <<width, used, arg, ret>>

\* h[i] == h[j]: value 1 for true, 0 for false.
Eq(i, j) ==
    /\ nops < MaxOps
    /\ Live(h[i])
    /\ Live(h[j])
    /\ nops' = nops + 1
    /\ last' = IF check_modulus_eq(h[i], h[j])
               THEN Event("eq", "none", 0, 0, 0, h[i], h[j], origin[i], origin[j],
                          IF eq(h[i], h[j]) THEN 1 ELSE 0)
               ELSE Event("eq", "ModulusMismatch", 0, 0, 0, h[i], h[j],
                          origin[i], origin[j], 0)
    /\ UNCHANGED <<width, h, origin, used, arg, ret>>

\* h[i].residue()
Residue(i) ==
    /\ nops < MaxOps
    /\ Live(h[i])
    /\ nops' = nops + 1
    /\ last' = Event("residue", "none", 0, 0, 0, h[i], NoHandle, origin[i], NoOrigin,
                     residue(width, h[i]))
    /\ UNCHANGED <<width, h, origin, used, arg, ret>>

Next ==
    \/ \E k \in Slots, n \in Values(width), m \in Moduli(width) : New(k, n, m)
    \/ \E k \in Slots, i \in Slots, n \in Values(width) : Derive(k, i, n)
    \/ \E i \in Slots, j \in Slots : Add(i, j)
    \/ \E i \in Slots, j \in Slots : Sub(i, j)
    \/ \E i \in Slots, j \in Slots : Mul(i, j)
    \/ \E i \in Slots : Neg(i)
    \/ \E i \in Slots, j \in Slots : Eq(i, j)
    \/ \E i \in Slots : Residue(i)

Spec == Init /\ [][Next]_vars

(***************************************************************************)
(* The generic operations of ModularOps that the trait declares in lib.rs: *)
(* invm by the extended Euclidean algorithm and the Jacobi symbol by the   *)
(* reciprocity-and-reduction loop.                                         *)
(***************************************************************************)
\* The loop of invm: (old_r, r) are remainders, (old_s, s) their signed cofactors of a.
RECURSIVE invm_loop(_, _, _, _)
invm_loop(old_r, r, old_s, s) ==
    IF r = 0 THEN [r |-> old_r, s |-> old_s]
    ELSE LET q == old_r \div r
         IN  invm_loop(r, old_r - q * r, s, old_s - q * s)

\* invm returning the cofactor as the loop left it, negative or not.
invm_raw_cofactor(a, m) ==
    LET e == invm_loop(a % m, m, 1, 0)
    IN  IF e.r /= 1 THEN [some |-> FALSE, x |-> 0] ELSE [some |-> TRUE, x |-> e.s]

\* invm(a, m): [some |-> TRUE, x |-> inverse] or [some |-> FALSE, x |-> 0].  m /= 0.
invm(a, m) ==
    LET e == invm_loop(a % m, m, 1, 0)
    IN  IF e.r /= 1 THEN [some |-> FALSE, x |-> 0] ELSE [some |-> TRUE, x |-> e.s % m]

Flip(result) == 0 - result

\* The inner loop of jacobi: halve a while it is even, flipping when n mod 8 is 3 or 5.
RECURSIVE jacobi_twos(_, _, _)
jacobi_twos(a, n, result) ==
    IF a % 2 = 0
    THEN jacobi_twos(a \div 2, n, IF n % 8 \in {3, 5} THEN Flip(result) ELSE result)
    ELSE [a |-> a, result |-> result]

\* The outer loop of jacobi without the sign change of quadratic reciprocity.
RECURSIVE jacobi_loop_no_reciprocity(_, _, _)
jacobi_loop_no_reciprocity(a, n, result) ==
    IF a = 0 THEN (IF n = 1 THEN result ELSE 0)
    ELSE LET odd == jacobi_twos(a, n, result)
         IN  jacobi_loop_no_reciprocity(n % odd.a, odd.a, odd.result)

\* The outer loop of jacobi, entered with a already reduced modulo n.
RECURSIVE jacobi_loop(_, _, _)
jacobi_loop(a, n, result) ==
    IF a = 0 THEN (IF n = 1 THEN result ELSE 0)
    ELSE LET odd  == jacobi_twos(a, n, result)
             a2   == n
             n2   == odd.a
             res2 == IF a2 % 4 = 3 /\ n2 % 4 = 3 THEN Flip(odd.result) ELSE odd.result
         IN  jacobi_loop(a2 % n2, n2, res2)

\* jacobi(a, n): [fault, value]; it fails when n is even (zero included).
jacobi(a, n) ==
    IF n % 2 = 0 THEN [fault |-> "InvalidModulus", value |-> 0]
    ELSE [fault |-> "none", value |-> jacobi_loop(a % n, n, 1)]

(***************************************************************************)
(* Montgomery::neginv at all four widths u8, u16, u32 and u64.  A word of  *)
(* 32 or 64 bits is beyond the integers at hand, so here a value of Self   *)
(* is the sequence of its bytes, lowest first, and the wrapping operations *)
(* work byte by byte.                                                      *)
(***************************************************************************)
AllWidths == {8, 16, 32, 64}

\* The number of bytes of Self
Limbs(W) == BITS(W) \div 8

\* b as Self, for a value b below 2^8 (a table entry, the literal 2)
FromByte(W, b) == [k \in 1..Limbs(W) |-> IF k = 1 THEN b ELSE 0]

\* The natural a one- or two-byte word stands for
LimbsToInt(x) == IF Len(x) = 1 THEN x[1] ELSE x[1] + Byte * x[2]

\* The part of column k of the product x * y contributed by x[i..k]
RECURSIVE MulColumn(_, _, _, _)
MulColumn(x, y, k, i) ==
    IF i > k THEN 0 ELSE x[i] * y[k + 1 - i] + MulColumn(x, y, k, i + 1)

\* Bytes k.. of the product, the carry into column k given
RECURSIVE MulFrom(_, _, _, _)
MulFrom(x, y, k, carry) ==
    IF k > Len(x) THEN << >>
    ELSE LET s == carry + MulColumn(x, y, k, 1)
         IN  << s % Byte >> \o MulFrom(x, y, k + 1, s \div Byte)

\* x.wrapping_mul(y)
limbs_wrapping_mul(x, y) == MulFrom(x, y, 1, 0)

\* Bytes k.. of the difference, the borrow into byte k given
RECURSIVE SubFrom(_, _, _, _)
SubFrom(x, y, k, borrow) ==
    IF k > Len(x) THEN << >>
    ELSE LET d == x[k] - y[k] - borrow
         IN  << d % Byte >> \o SubFrom(x, y, k + 1, IF d < 0 THEN 1 ELSE 0)

\* x.wrapping_sub(y)
limbs_wrapping_sub(x, y) == SubFrom(x, y, 1, 0)

\* x.wrapping_neg()
limbs_wrapping_neg(x) == limbs_wrapping_sub([k \in 1..Len(x) |-> 0], x)

\* One Hensel step: 2.wrapping_sub(i.wrapping_mul(m)).wrapping_mul(i)
HenselLift(W, i, m) ==
    limbs_wrapping_mul(limbs_wrapping_sub(FromByte(W, 2), limbs_wrapping_mul(i, m)), i)

\* The last step, negating: i.wrapping_mul(m).wrapping_sub(2).wrapping_mul(i)
HenselNegate(W, i, m) ==
    limbs_wrapping_mul(limbs_wrapping_sub(limbs_wrapping_mul(i, m), FromByte(W, 2)), i)

\* neginv of u64 with one Hensel step where there are two.
neginv_limbs_one_step_short(W, m) ==
    LET i == FromByte(W, BinvertSeed(m[1]))
    IN  CASE W = 8  -> limbs_wrapping_neg(i)
          [] W = 16 -> HenselNegate(W, i, m)
          [] W = 32 -> HenselNegate(W, HenselLift(W, i, m), m)
          [] W = 64 -> HenselNegate(W, HenselLift(W, i, m), m)

\* Montgomery::neginv for u8, u16, u32 and u64, on the bytes of m.
neginv_limbs(W, m) ==
    LET i == FromByte(W, BinvertSeed(m[1]))
    IN  CASE W = 8  -> limbs_wrapping_neg(i)
          [] W = 16 -> HenselNegate(W, i, m)
          [] W = 32 -> HenselNegate(W, HenselLift(W, i, m), m)
          [] W = 64 -> HenselNegate(W, HenselLift(W, HenselLift(W, i, m), m), m)

\* The bytes of the moduli neginv is called with: every odd low byte, and
\* a few values in each byte above it.
OddBytes == {b \in 1..(Byte - 1) : b % 2 = 1}

HighBytes(W) == IF W = 64 THEN {0, Byte - 1} ELSE {0, 85, Byte - 1}

OddWords(W) ==
    {[k \in 1..Limbs(W) |-> IF k = 1 THEN lo ELSE hi[k]] :
        lo \in OddBytes, hi \in [2..Limbs(W) -> HighBytes(W)]}

(***************************************************************************)
(* The functions applied to inputs: arg = [m, x, y] is drawn at the start, *)
(* and the one call made leaves what it returned in ret.                   *)
(***************************************************************************)
Span == 4

Near(W, c) == {v \in (c - Span)..(c + Span) : 0 <= v /\ v < R(W)}

FnValues(W) == Near(W, 0) \cup Near(W, R(W) \div 2) \cup Near(W, R(W) - 1)

\* Moduli: the values above, and primes of each size.
FnModuli(W) ==
    FnValues(W) \cup {11, 13, 17, 19, 23, 101, 239, 241, 251}
                \cup (IF W = 16 THEN {257, 32749, 65519, 65521} ELSE {})

InitFn ==
    /\ width \in Widths
    /\ h = [k \in Slots |-> NoHandle]
    /\ origin = [k \in Slots |-> NoOrigin]
    /\ used = {}
    /\ last = Event("init", "none", 0, 0, 0, NoHandle, NoHandle, NoOrigin, NoOrigin, 0)
    /\ nops = 0
    /\ arg \in [m : FnModuli(width), x : FnValues(width), y : FnValues(width)]
    /\ ret = NoRet

Quiet == UNCHANGED <<width, h, origin, used, last, nops, arg>>

\* MontgomeryInt::new(x, m).residue(), as monty_int_basic_test calls it.
CallNewResidue ==
    /\ ret = NoRet
    /\ arg.m /= 0
    /\ ret' = [fn |-> "new_residue",
               a |-> MontgomeryInt_new(width, arg.x, arg.m, 1).a,
               out |-> residue(width, MontgomeryInt_new(width, arg.x, arg.m, 1))]
    /\ Quiet

\* Montgomery::reduce on the double-width value x * R + y, neginv(m) at hand.
CallReduce ==
    /\ ret = NoRet
    /\ arg.m /= 0
    /\ ret' = [fn |-> "reduce",
               t |-> [hi |-> arg.x, lo |-> arg.y],
               steps |-> reduce_steps(width, [hi |-> arg.x, lo |-> arg.y], arg.m,
                                      neginv(width, arg.m))]
    /\ Quiet

\* Montgomery::mul on the Montgomery forms of x and y.
CallMul ==
    /\ ret = NoRet
    /\ arg.m /= 0
    /\ ret' = [fn |-> "mul",
               t |-> WideMul(width, transform(width, arg.x, arg.m),
                             transform(width, arg.y, arg.m)),
               steps |-> reduce_steps(width,
                                      WideMul(width, transform(width, arg.x, arg.m),
                                              transform(width, arg.y, arg.m)),
                                      arg.m, neginv(width, arg.m))]
    /\ Quiet

\* Montgomery::pow on the Montgomery form of x, with exponent y.
CallPow ==
    /\ ret = NoRet
    /\ arg.m /= 0
    /\ ret' = [fn |-> "pow",
               out |-> pow(width, transform(width, arg.x, arg.m), arg.y, arg.m,
                           neginv(width, arg.m))]
    /\ Quiet

\* x.invm(m)
CallInvm ==
    /\ ret = NoRet
    /\ arg.m /= 0
    /\ ret' = [fn |-> "invm", inv |-> invm(arg.x, arg.m)]
    /\ Quiet

\* x.jacobi(m)
CallJacobi ==
    /\ ret = NoRet
    /\ ret' = [fn |-> "jacobi", sym |-> jacobi(arg.x, arg.m)]
    /\ Quiet

NextFn ==
    \/ CallNewResidue
    \/ CallReduce
    \/ CallMul
    \/ CallPow
    \/ CallInvm
    \/ CallJacobi

SpecFn == InitFn /\ [][NextFn]_vars

(***************************************************************************)
(* neginv applied to odd moduli of every width: arg.m holds the bytes of   *)
(* the modulus, and ret records the table entry read and the value         *)
(* returned.                                                               *)
(***************************************************************************)
InitInv ==
    /\ width \in AllWidths
    /\ h = [k \in Slots |-> NoHandle]
    /\ origin = [k \in Slots |-> NoOrigin]
    /\ used = {}
    /\ last = Event("init", "none", 0, 0, 0, NoHandle, NoHandle, NoOrigin, NoOrigin, 0)
    /\ nops = 0
    /\ arg \in [m : OddWords(width), x : {0}, y : {0}]
    /\ ret = NoRet

\* Montgomery::neginv(&m)
CallNeginv ==
    /\ ret = NoRet
    /\ ret' = [fn |-> "neginv",
               seed |-> BinvertSeed(arg.m[1]),
               minv |-> neginv_limbs(width, arg.m)]
    /\ Quiet

NextInv == CallNeginv

SpecInv == InitInv /\ [][NextInv]_vars

(***************************************************************************)
(* Integer arithmetic modulo m, computed without any of the above: the     *)
(* yardstick the claims are measured with.                                 *)
(***************************************************************************)
\* (a * b) mod m by doubling, for m below 2^16
RECURSIVE MulMod(_, _, _)
MulMod(a, b, m) ==
    IF b = 0 THEN 0
    ELSE (2 * MulMod(a % m, b \div 2, m) + (b % 2) * (a % m)) % m

\* (b ^ e) mod m
SqMod(v, m) == MulMod(v, v, m)

RECURSIVE PowMod(_, _, _)
PowMod(b, e, m) ==
    IF e = 0 THEN 1 % m
    ELSE IF e % 2 = 1 THEN MulMod(SqMod(PowMod(b, e \div 2, m), m), b, m)
    ELSE SqMod(PowMod(b, e \div 2, m), m)

\* (hi * 2^W + lo) mod m
DoubleMod(W, d, m) == (MulMod(d.hi, R(W) % m, m) + (d.lo % m)) % m

AddMod(a, b, m) == ((a % m) + (b % m)) % m

SubMod(a, b, m) == ((a % m) - (b % m) + m) % m

RECURSIVE GCD(_, _)
GCD(a, b) == IF b = 0 THEN a ELSE GCD(b, a % b)

IsPrime(n) == n >= 2 /\ \A d \in 2..(n - 1) : d > n \div d \/ n % d /= 0

(***************************************************************************)
(* C1.  For every odd modulus m >= 3 and every x of the width,             *)
(* MontgomeryInt::new(x, m).residue() equals x mod m.                      *)
(***************************************************************************)
C1_ResidueOfNew ==
    (ret.fn = "new_residue" /\ ValidModulus(arg.m)) => ret.out = arg.x % arg.m

\* A 16-bit x above m whose Montgomery form differs from its residue came back as x mod m.
C1_Witness ==
    /\ ret.fn = "new_residue"
    /\ width = 16
    /\ ValidModulus(arg.m)
    /\ arg.x > arg.m
    /\ ret.a /= ret.out
    /\ ret.out = arg.x % arg.m

(***************************************************************************)
(* C2.  For an odd modulus m >= 3, the operators +, - and * on two handles *)
(* converted from a and b with that modulus, by the same or by separate    *)
(* calls of new, return a handle whose residue is (a + b) mod m,           *)
(* (a - b) mod m in [0, m), and (a * b) mod m.                             *)
(***************************************************************************)
C2_Expected ==
    CASE last.op = "add" -> AddMod(last.lsrc, last.rsrc, modulus(last.lhs))
      [] last.op = "sub" -> SubMod(last.lsrc, last.rsrc, modulus(last.lhs))
      [] last.op = "mul" -> MulMod(last.lsrc, last.rsrc, modulus(last.lhs))

C2_OperatorsHomomorphic ==
    ( /\ last.op \in {"add", "sub", "mul"}
      /\ last.lsrc /= NoOrigin
      /\ last.rsrc /= NoOrigin
      /\ modulus(last.lhs) = modulus(last.rhs)
      /\ ValidModulus(modulus(last.lhs)) )
    => /\ last.fault = "none"
       /\ residue(width, h[last.dst]) = C2_Expected

\* A difference that wrapped around m, of two handles from separate calls of new.
C2_Witness ==
    /\ last.op = "sub"
    /\ last.fault = "none"
    /\ ~ptr_eq(last.lhs, last.rhs)
    /\ modulus(last.lhs) = 7
    /\ modulus(last.rhs) = 7
    /\ last.lsrc = 2
    /\ last.rsrc = 5
    /\ residue(width, h[last.dst]) = 4

(***************************************************************************)
(* C3.  A binary operator +, - or * or an equality test on two handles     *)
(* fails with ModulusMismatch exactly when their moduli differ.            *)
(***************************************************************************)
C3_MismatchPanics ==
    ( /\ last.op \in {"add", "sub", "mul", "eq"}
      /\ ValidModulus(modulus(last.lhs))
      /\ ValidModulus(modulus(last.rhs)) )
    => (last.fault = "ModulusMismatch" <=> modulus(last.lhs) /= modulus(last.rhs))

(***************************************************************************)
(* C4.  MontgomeryInt::new(x, m) with m even or m < 3 fails instead of     *)
(* returning a handle.                                                     *)
(***************************************************************************)
C4_InvalidModulusRejected ==
    (last.op = "new" /\ ~ValidModulus(last.m)) => last.fault /= "none"

(***************************************************************************)
(* C5.  Two handles over the same odd modulus m >= 3, each obtained by new,*)
(* derive and the operators, compare equal if and only if their residues   *)
(* are equal.  The handles compared with the one in slot i are those of    *)
(* the other slots and those derived from it.                              *)
(***************************************************************************)
C5_Peers(i) ==
    {h[j] : j \in {k \in Slots : Live(h[k]) /\ modulus(h[k]) = modulus(h[i])}}
        \cup {derive(width, h[i], n) : n \in Values(width)}

C5_EqIsResidueEq ==
    \A i \in Slots :
        (Live(h[i]) /\ FixedModulus(modulus(h[i])))
        => \A g \in C5_Peers(i) :
              /\ check_modulus_eq(h[i], g)
              /\ eq(h[i], g) <=> (residue(width, h[i]) = residue(width, g))

(***************************************************************************)
(* C6.  For an odd modulus m >= 3, Montgomery::pow on the Montgomery form  *)
(* of b with exponent e returns the Montgomery form of b^e mod m: reducing *)
(* it gives b^e mod m (1 mod m when e = 0).                                *)
(***************************************************************************)
C6_PowIsMontgomeryForm ==
    (ret.fn = "pow" /\ ValidModulus(arg.m))
    => reduce(width, Widen(ret.out), arg.m, neginv(width, arg.m))
          = PowMod(arg.x, arg.y, arg.m)

(***************************************************************************)
(* C7.  For m > 1, invm(a, m) is sound and complete, also when a >= m: an  *)
(* inverse x returned is in [0, m) with (a * x) mod m = 1, and none is     *)
(* returned only when gcd(a, m) /= 1.                                      *)
(***************************************************************************)
C7_InvmSoundComplete ==
    (ret.fn = "invm" /\ arg.m > 1)
    => /\ ret.inv.some => /\ 0 <= ret.inv.x
                          /\ ret.inv.x < arg.m
                          /\ MulMod(arg.x, ret.inv.x, arg.m) = 1
       /\ ~ret.inv.some => GCD(arg.x, arg.m) /= 1

\* An inverse of an a above m whose cofactor had to be brought back into [0, m).
C7_Witness ==
    /\ ret.fn = "invm"
    /\ arg.m > 1
    /\ arg.x > arg.m
    /\ ret.inv.some
    /\ invm_loop(arg.x % arg.m, arg.m, 1, 0).s < 0
    /\ MulMod(arg.x, ret.inv.x, arg.m) = 1

(***************************************************************************)
(* C8.  For every a and every odd n >= 1, jacobi(a, n) returns -1, 0 or 1, *)
(* and for an odd prime n it agrees with Euler's criterion: it is          *)
(* a^((n-1)/2) mod n read as 1, as -1 (for n - 1) or as 0.                 *)
(***************************************************************************)
C8_Euler(a, n) ==
    LET e == PowMod(a, (n - 1) \div 2, n)
    IN  IF e = n - 1 THEN 0 - 1 ELSE e

C8_JacobiEuler ==
    (ret.fn = "jacobi" /\ arg.m % 2 = 1)
    => /\ ret.sym.fault = "none"
       /\ ret.sym.value \in {0 - 1, 0, 1}
       /\ IsPrime(arg.m) => ret.sym.value = C8_Euler(arg.x, arg.m)

\* A non-residue of a 16-bit prime, found through halvings and a reciprocity flip.
C8_Witness ==
    /\ ret.fn = "jacobi"
    /\ width = 16
    /\ arg.m > 2 ^ 8
    /\ IsPrime(arg.m)
    /\ arg.x > arg.m
    /\ (arg.x % arg.m) % 2 = 0
    /\ ret.sym.fault = "none"
    /\ ret.sym.value = 0 - 1
    /\ C8_Euler(arg.x, arg.m) = 0 - 1

(***************************************************************************)
(* C9.  After any sequence of new, derive, +, -, * and unary - over an odd *)
(* modulus m >= 3, the Montgomery residue a of every handle is in [0, m).  *)
(***************************************************************************)
C9_ResidueInRange ==
    \A k \in Slots :
        (Live(h[k]) /\ FixedModulus(modulus(h[k])))
        => (0 <= h[k].a /\ h[k].a < modulus(h[k]))

(***************************************************************************)
(* C10.  For an odd modulus m >= 3, minv = neginv(m) and a double-width t  *)
(* below m * 2^W, reduce(t, m, minv) returns r in [0, m) with              *)
(* r * 2^W congruent to t modulo m, and when t + u*m carries out of 2W     *)
(* bits the compensation r + wrapping_neg(m) stays within W bits; the      *)
(* final r - m is taken only when r >= m, so it cannot go below zero.      *)
(***************************************************************************)
C10_ReduceCorrect ==
    ( /\ ret.fn \in {"reduce", "mul"}
      /\ ValidModulus(arg.m)
      /\ ReduceInRange(ret.t, arg.m) )
    => /\ 0 <= ret.steps.out
       /\ ret.steps.out < arg.m
       /\ DoubleMod(width, [hi |-> ret.steps.out, lo |-> 0], arg.m)
             = DoubleMod(width, ret.t, arg.m)
       /\ ~ret.steps.wrapped

\* A 16-bit reduction whose sum carried out of 32 bits and was compensated.
C10_Witness ==
    /\ ret.fn = "reduce"
    /\ width = 16
    /\ ValidModulus(arg.m)
    /\ ReduceInRange(ret.t, arg.m)
    /\ ret.steps.overflow
    /\ ret.steps.out < arg.m
    /\ ret.steps.comp = ret.steps.t + wrapping_neg(width, arg.m)

(***************************************************************************)
(* C11: for every width W in {8, 16, 32, 64} and every odd m of that       *)
(* width, neginv(m) is correct to all W bits: m * neginv(m) is 2^W - 1     *)
(* modulo 2^W, that is, every byte of the wrapped product is 2^8 - 1; and  *)
(* the table entry it starts from is the inverse of m modulo 2^8.  At the  *)
(* widths 8 and 16 the value is the one neginv gives on integers.          *)
(***************************************************************************)
C11_NeginvFullWidth ==
    ret.fn = "neginv"
    => /\ (arg.m[1] * ret.seed) % Byte = 1
       /\ Len(ret.minv) = Limbs(width)
       /\ limbs_wrapping_mul(arg.m, ret.minv) = [k \in 1..Limbs(width) |-> Byte - 1]
       /\ width \in Widths
          => LimbsToInt(ret.minv) = neginv(width, LimbsToInt(arg.m))

\* A 64-bit modulus with bytes set above the lowest, whose negated inverse
\* differs from the negated table entry in its upper bytes.
C11_Witness ==
    /\ ret.fn = "neginv"
    /\ width = 64
    /\ arg.m[1] = 85
    /\ arg.m[2] = Byte - 1
    /\ arg.m[8] = Byte - 1
    /\ ret.minv /= limbs_wrapping_neg(FromByte(width, ret.seed))
    /\ limbs_wrapping_mul(arg.m, ret.minv) = [k \in 1..8 |-> Byte - 1]

(***************************************************************************)
(* C12: deriving is equivalent to constructing.  Whenever a handle is      *)
(* derived from a handle s with modulus m and an integer n, the derived    *)
(* handle has the modulus m and the very context of s (no context is       *)
(* built, none joins the moduli used), its residue is n mod m when m is a  *)
(* valid modulus, and it stands for the same value as MontgomeryInt::new(n,*)
(* m) on a context of its own: with every live handle g, on either side,   *)
(* and with itself, the modulus check, +, -, * and == give the same        *)
(* outcome for both.  No handle other than the one assigned changes.       *)
(***************************************************************************)
C12_SameValue(x, y) ==
    /\ x.a = y.a
    /\ x.minv.m = y.minv.m
    /\ x.minv.inv = y.minv.inv

C12_SameBehaviour(d, f, g, gf) ==
    /\ check_modulus_eq(d, g) = check_modulus_eq(f, gf)
    /\ check_modulus_eq(g, d) = check_modulus_eq(gf, f)
    /\ C12_SameValue(handle_add(width, d, g), handle_add(width, f, gf))
    /\ C12_SameValue(handle_add(width, g, d), handle_add(width, gf, f))
    /\ C12_SameValue(handle_sub(width, d, g), handle_sub(width, f, gf))
    /\ C12_SameValue(handle_sub(width, g, d), handle_sub(width, gf, f))
    /\ C12_SameValue(handle_mul(width, d, g), handle_mul(width, f, gf))
    /\ C12_SameValue(handle_mul(width, g, d), handle_mul(width, gf, f))
    /\ eq(d, g) = eq(f, gf)
    /\ eq(g, d) = eq(gf, f)

\* The state a derive step leaves: last.lhs is the source as it was, and
\* the derived handle is in slot last.dst.
C12_DerivedLikeNew ==
    last.op = "derive"
    => LET s == last.lhs
           d == h[last.dst]
           f == MontgomeryInt_new(width, last.n, modulus(s), Cardinality(Slots) + 1)
       IN  /\ Live(s)
           /\ modulus(d) = modulus(s)
           /\ d.minv = s.minv
           /\ ptr_eq(d, s)
           /\ ValidModulus(modulus(s)) => residue(width, d) = last.n % modulus(s)
           /\ residue(width, d) = residue(width, f)
           /\ C12_SameValue(d, f)
           /\ \A j \in Slots : ~ptr_eq(h[j], f)
           /\ C12_SameBehaviour(d, f, d, f)
           /\ \A j \in Slots \ {last.dst} :
                 Live(h[j]) => C12_SameBehaviour(d, f, h[j], h[j])

\* What a derive step leaves alone.
C12_DeriveStep ==
    last'.op = "derive"
    => /\ \E i \in Slots : h[i] = last'.lhs
       /\ used' = used
       /\ \A j \in Slots \ {last'.dst} : h'[j] = h[j]

C12_DeriveIsNew == []C12_DerivedLikeNew /\ [][C12_DeriveStep]_vars

\* A handle derived into the other slot from a handle with modulus 7, from
\* an integer above the modulus: it is stored in Montgomery form, points to
\* the context of its source, and the source is still in its slot.
C12_Witness ==
    /\ last.op = "derive"
    /\ last.m = 7
    /\ last.n > last.m
    /\ h[last.dst].a /= last.n % last.m
    /\ residue(width, h[last.dst]) = last.n % last.m
    /\ \E j \in Slots \ {last.dst} :
          /\ h[j] = last.lhs
          /\ h[j].minv.ptr = h[last.dst].minv.ptr

====
